---- MODULE Spec2Model ----
(***************************************************************************)
(* A model of svg.py: the path-string command parser (Path.parse), the     *)
(* flattening of a Path into subpaths (Path.segments, Line.segments,       *)
(* Bezier.segments), the polyline simplifier (Path.simplify) and the       *)
(* bounding box / transformations of a composite Drawable.                 *)
(*                                                                         *)
(* One Path object is modelled: its fields (items, xmin, xmax, ymin, ymax),*)
(* the locals of a running Path.parse, and the argument and result of the  *)
(* last segments()/simplify()/bbox() call.  Each specification below       *)
(* exercises one group of operations on it: SpecParse (parse), SpecScenario*)
(* (parse, then segments, of a polygon), SpecBezier (segments of a curve), *)
(* SpecBBox (bbox and the transformations), SpecLoop (the simplifier loop  *)
(* on a subpath) and SpecSimplify (simplify on a Path).                    *)
(***************************************************************************)
EXTENDS Integers, Sequences, FiniteSets, TLC

VARIABLES
    items,          \* Drawable.items: the primitives of the Path
    xmin, xmax,     \* Drawable.xmin .. ymax: the fields bbox() keeps
    ymin, ymax,
    pathstr,        \* the token list re.findall gave Path.parse (its input)
    pathlst,        \* Path.parse: the tokens not yet popped, next token first
    command,        \* Path.parse: command
    last_command,   \* Path.parse: last_command
    absolute,       \* Path.parse: absolute
    current_pt,     \* Path.parse: current_pt
    start_pt,       \* Path.parse: start_pt
    pc,             \* where the Path is: "parse", "done", an exception name, ...
    precision,      \* the precision argument of segments()/simplify()
    ret,            \* the value the last call returned
    ncalls          \* number of calls made on the object so far

vars == <<items, xmin, xmax, ymin, ymax, pathstr, pathlst, command,
          last_command, absolute, current_pt, start_pt, pc, precision, ret,
          ncalls>>

parseVars == <<pathlst, command, last_command, absolute, current_pt, start_pt>>
bboxVars == <<xmin, xmax, ymin, ymax>>

None == "None"

\* lines 9-12: a box bound is None, held as <<>>, or a number v, held as <<v>>
Unset == <<>>

(***************************************************************************)
(* Bounds of the model.                                                    *)
(***************************************************************************)
MaxTokens == 8      \* longest token stream of unknown content given to parse
MaxItems == 9       \* parse stops being followed once it holds this many items

(***************************************************************************)
(* Point: a pair of coordinates.                                           *)
(***************************************************************************)
Point(x, y) == <<x, y>>

PointAdd(p, q) == Point(p[1] + q[1], p[2] + q[2])

PointSub(p, q) == Point(p[1] - q[1], p[2] - q[2])

PointMul(p, k) == Point(p[1] * k, p[2] * k)

(***************************************************************************)
(* The primitives a Path holds.                                            *)
(***************************************************************************)
MoveTo(dest) == [type |-> "MoveTo", dest |-> dest]

Line(start, end) == [type |-> "Line", start |-> start, end |-> end]

Bezier(pts) == [type |-> "Bezier", pts |-> pts, dimension |-> Len(pts)]

Last(s) == s[Len(s)]

\* Bezier.control_point(n): pts[n], counted from 0
control_point(b, n) == b.pts[n + 1]

(***************************************************************************)
(* Tokens.  re.findall yields number tokens and command-letter tokens; a   *)
(* letter token may carry blanks around it (" L"), which strip() removes.  *)
(* Unknown stands for a token whose content has not been read yet: the     *)
(* model draws it when the parser first looks at it.                       *)
(***************************************************************************)
COMMANDS == {"M", "m", "Z", "z", "L", "l", "H", "h", "V", "v",
             "C", "c", "S", "s", "Q", "q", "T", "t", "A", "a"}

Unknown == "?"

\* the number tokens of the model
NumberTokens == {"0", "1", "2", "10"}

\* a command letter with the blanks the tokenizer may leave around it
Blanked == {<<" " \o c, c>> : c \in COMMANDS} \cup {<<c \o " ", c>> : c \in COMMANDS}
               \cup {<<" " \o c \o " ", c>> : c \in COMMANDS}

\* str.strip() on a token: a token without blanks is returned as it is
Strip(tok) ==
    IF tok \in COMMANDS \cup NumberTokens THEN tok
    ELSE IF \E p \in Blanked : p[1] = tok
    THEN (CHOOSE p \in Blanked : p[1] = tok)[2]
    ELSE tok

\* pathlst[-1].strip() in COMMANDS
IsCommand(tok) == Strip(tok) \in COMMANDS

\* str.upper() on a command letter
Upper(c) ==
    CASE c = "m" -> "M" [] c = "z" -> "Z" [] c = "l" -> "L" [] c = "h" -> "H"
      [] c = "v" -> "V" [] c = "c" -> "C" [] c = "s" -> "S" [] c = "q" -> "Q"
      [] c = "t" -> "T" [] c = "a" -> "A" [] OTHER -> c

\* float(tok) succeeds
IsNumber(tok) == tok \in NumberTokens

\* float() of a number token
Float(tok) ==
    CASE tok = "0" -> 0 [] tok = "1" -> 1 [] tok = "2" -> 2 [] tok = "10" -> 10

(***************************************************************************)
(* Path.parse.  One loop iteration is one step (ParseStep).  The content   *)
(* of an Unknown token is drawn when the iteration reads it, and is        *)
(* filled in in pathstr, which so holds the input as far as it was read    *)
(* (of an iteration that raises, only the token at the head).              *)
(***************************************************************************)
\* what an Unknown token may turn out to be
DrawLetters == {"M", "Z", "l", "H", "v", "C", "S", "Q", "T", "A"}

DrawNumbers == {"1", "2"}

\* float() fails alike on every letter, so one letter stands for all of them
\* where a coordinate is popped
DrawCoords == DrawNumbers \cup {"Z"}

RECURSIVE Resolutions(_, _)
\* the first m tokens of lst, every Unknown among them replaced by a drawn token
Resolutions(lst, m) ==
    IF m = 0 THEN {<<>>}
    ELSE {Append(p, x) : p \in Resolutions(lst, m - 1),
                         x \in (IF lst[m] = Unknown THEN DrawCoords ELSE {lst[m]})}

Min(a, b) == IF a < b THEN a ELSE b

\* number of tokens the body of a command pops
NPops(cmd) ==
    CASE cmd = "M" -> 2
      [] cmd = "Z" -> 0
      [] cmd = "L" -> 2
      [] cmd \in {"H", "V"} -> 1
      [] cmd = "C" -> 6
      [] cmd = "Q" -> 4
      [] cmd = "S" -> 4
      [] cmd = "T" -> 2
      [] cmd = "A" -> 7
      [] OTHER -> 1

\* the tokens of a command are popped singly (H, V, A, the else branch) or as
\* x, y pairs that are then converted together
PopsPairs(cmd) == cmd \in {"M", "L", "C", "Q", "S", "T"}

RECURSIVE PopError(_, _, _, _)
\* The exception the pops and float() calls of a command raise, and how many
\* tokens were popped when it was raised: toks are the tokens at hand (at most
\* NPops of them), k the number already read.  list.pop() of an empty list is
\* an IndexError and empties nothing further; float() of a letter a ValueError.
PopError(cmd, toks, avail, k) ==
    IF k >= NPops(cmd) THEN [exc |-> None, popped |-> k]
    ELSE IF cmd = "A" \/ ~(cmd \in {"M", "L", "H", "V", "C", "Q", "S", "T"}) THEN
        IF avail < NPops(cmd) THEN [exc |-> "IndexError", popped |-> avail]
        ELSE [exc |-> None, popped |-> NPops(cmd)]
    ELSE IF PopsPairs(cmd) THEN
        IF avail < k + 2 THEN [exc |-> "IndexError", popped |-> avail]
        ELSE IF ~IsNumber(toks[k + 1]) \/ ~IsNumber(toks[k + 2])
        THEN [exc |-> "ValueError", popped |-> k + 2]
        ELSE PopError(cmd, toks, avail, k + 2)
    ELSE
        IF avail < k + 1 THEN [exc |-> "IndexError", popped |-> avail]
        ELSE IF ~IsNumber(toks[k + 1])
        THEN [exc |-> "ValueError", popped |-> k + 1]
        ELSE PopError(cmd, toks, avail, k + 1)

\* the test of lines 148-150 left out
NoCommandUnchecked(tok) == FALSE

\* lines 148-150: a token that is no command while no command is active
NoCommand(tok) == ~IsCommand(tok) /\ command = None

\* the j-th point read by a command: Point(float(x), float(y)), made absolute
ReadPoint(toks, j, abs, cur) ==
    LET pt == Point(Float(toks[2 * j - 1]), Float(toks[2 * j]))
    IN IF abs THEN pt ELSE PointAdd(pt, cur)

\* lines 152-166: MoveTo
ParseM(toks, abs, cur) ==
    LET pt == Point(Float(toks[1]), Float(toks[2]))
        dest == IF abs THEN pt ELSE PointAdd(cur, pt)
    IN [current_pt |-> dest, start_pt |-> dest,
        items |-> Append(items, MoveTo(dest)), command |-> "L"]

\* Close Path with the pen moved to the start of the subpath, if there is one
ParseZMovesPen(cur, start) ==
    [current_pt |-> IF start = None THEN cur ELSE start, start_pt |-> start,
     items |-> Append(items, Line(cur, start)), command |-> "Z"]

\* lines 168-171: Close Path
ParseZ(cur, start) ==
    [current_pt |-> cur, start_pt |-> start,
     items |-> Append(items, Line(cur, start)), command |-> "Z"]

\* lines 174-192: LineTo, Horizontal & Vertical line
ParseLHV(cmd, toks, abs, cur, start) ==
    LET base == IF abs THEN cur ELSE Point(0, 0)
        x == IF cmd \in {"L", "H"} THEN Float(toks[1]) ELSE base[1]
        y == IF cmd = "L" THEN Float(toks[2])
             ELSE IF cmd = "V" THEN Float(toks[1]) ELSE base[2]
        pt == IF abs THEN Point(x, y) ELSE PointAdd(Point(x, y), cur)
    IN [current_pt |-> pt, start_pt |-> start,
        items |-> Append(items, Line(cur, pt)), command |-> cmd]

\* lines 194-207: cubic and quadratic Bezier
ParseCQ(cmd, toks, abs, cur, start) ==
    LET dimension == IF cmd = "Q" THEN 3 ELSE 4
        bezier_pts == [i \in 1..dimension |->
                          IF i = 1 THEN cur ELSE ReadPoint(toks, i - 1, abs, cur)]
    IN [current_pt |-> bezier_pts[dimension], start_pt |-> start,
        items |-> Append(items, Bezier(bezier_pts)), command |-> cmd]

\* line 215: last = {'T': 'QT', 'S': 'CS'}
LastFamily(cmd) == IF cmd = "T" THEN {"Q", "T"} ELSE {"C", "S"}

\* lines 220-223: the exception the lookup of the point to mirror raises
MirrorError(cmd, lastc) ==
    IF lastc = None THEN "TypeError"
    ELSE IF ~(lastc \in LastFamily(cmd)) THEN None
    ELSE IF items = <<>> THEN "IndexError"
    ELSE IF Last(items).type # "Bezier" THEN "AttributeError"
    ELSE IF (IF cmd = "T" THEN 1 ELSE 2) >= Last(items).dimension THEN "LookupError"
    ELSE None

\* lines 220-223: pt0, the control point of the previous curve to mirror
MirrorSource(cmd, lastc, cur) ==
    IF lastc \in LastFamily(cmd)
    THEN control_point(Last(items), IF cmd = "T" THEN 1 ELSE 2)
    ELSE cur

\* lines 209-237: smooth cubic and quadratic Bezier
ParseTS(cmd, lastc, toks, abs, cur, start) ==
    LET nbpts == IF cmd = "T" THEN 1 ELSE 2
        pt0 == MirrorSource(cmd, lastc, cur)
        pt1 == cur
        bezier_pts == [i \in 1..(nbpts + 2) |->
                          IF i = 1 THEN cur
                          ELSE IF i = 2 THEN PointSub(PointAdd(pt1, pt1), pt0)
                          ELSE ReadPoint(toks, i - 2, abs, cur)]
    IN [current_pt |-> bezier_pts[nbpts + 2], start_pt |-> start,
        items |-> Append(items, Bezier(bezier_pts)), command |-> cmd]

\* lines 239-245: the arc command and the else branch only pop
ParseSkip(cmd, cur, start) ==
    [current_pt |-> cur, start_pt |-> start, items |-> items, command |-> cmd]

\* lines 152-245: the body of the loop for command cmd, all its tokens read
ParseBody(cmd, lastc, toks, abs, cur, start) ==
    CASE cmd = "M" -> ParseM(toks, abs, cur)
      [] cmd = "Z" -> ParseZ(cur, start)
      [] cmd \in {"L", "H", "V"} -> ParseLHV(cmd, toks, abs, cur, start)
      [] cmd \in {"C", "Q"} -> ParseCQ(cmd, toks, abs, cur, start)
      [] cmd \in {"T", "S"} -> ParseTS(cmd, lastc, toks, abs, cur, start)
      [] OTHER -> ParseSkip(cmd, cur, start)

\* lines 143-147: the command an iteration runs when the next token is tok
StepCommand(tok) == IF IsCommand(tok) THEN Upper(Strip(tok)) ELSE command

StepLastCommand(tok) == IF IsCommand(tok) THEN command ELSE last_command

StepAbsolute(tok) ==
    IF IsCommand(tok) THEN Strip(tok) = Upper(Strip(tok)) ELSE absolute

\* the token list after the command letter, if any, was popped
StepRest(lst) == IF IsCommand(Head(lst)) THEN Tail(lst) ELSE lst

Drop(lst, n) == SubSeq(lst, n + 1, Len(lst))

\* what the token at the head of the list may be
HeadDraws(h) == IF h = Unknown THEN DrawLetters \cup DrawNumbers ELSE {h}

\* the input with the tokens read from position pos + 1 on filled in
Known(str, pos, seen) ==
    [i \in 1..Len(str) |->
        IF i > pos /\ i <= pos + Len(seen) THEN seen[i - pos] ELSE str[i]]

\* the tokens an iteration has read: the one at the head, then the
\* coordinates it popped
Seen(tok, toks, popped) ==
    LET o == IF IsCommand(tok) THEN 1 ELSE 0
        m == o + Min(popped, Len(toks))
    IN [j \in 1..(IF m < 1 THEN 1 ELSE m) |-> IF j = 1 THEN tok ELSE toks[j - o]]

\* lines 142-245: one iteration of the while loop
ParseStep ==
    /\ pc = "parse"
    /\ pathlst # <<>>
    /\ Len(items) < MaxItems
    /\ \E tok \in HeadDraws(Head(pathlst)) :
       LET lst == <<tok>> \o Tail(pathlst)
           pos == Len(pathstr) - Len(pathlst)
           cmd == StepCommand(tok)
           lastc == StepLastCommand(tok)
           abs == StepAbsolute(tok)
           rest == StepRest(lst)
           avail == Min(NPops(cmd), Len(rest))
       IN IF NoCommand(tok)
          THEN /\ pc' = "ValueError"
               /\ pathlst' = lst
               /\ pathstr' = Known(pathstr, pos, <<tok>>)
               /\ UNCHANGED <<items, command, last_command, absolute,
                              current_pt, start_pt>>
          ELSE IF cmd \in {"T", "S"} /\ MirrorError(cmd, lastc) # None
          THEN /\ pc' = MirrorError(cmd, lastc)
               /\ pathlst' = rest
               /\ pathstr' = Known(pathstr, pos, <<tok>>)
               /\ command' = cmd
               /\ last_command' = lastc
               /\ absolute' = abs
               /\ UNCHANGED <<items, current_pt, start_pt>>
          ELSE \E toks \in Resolutions(rest, IF cmd = "A" THEN 0 ELSE avail) :
               LET err == PopError(cmd, toks, avail, 0)
                   r == ParseBody(cmd, lastc, toks, abs, current_pt, start_pt)
               IN /\ last_command' = lastc
                  /\ absolute' = abs
                  /\ pathlst' = Drop(rest, err.popped)
                  /\ IF err.exc # None
                     THEN /\ pc' = err.exc
                          /\ pathstr' = Known(pathstr, pos, <<tok>>)
                          /\ command' = cmd
                          /\ UNCHANGED <<items, current_pt, start_pt>>
                     ELSE /\ pc' = "parse"
                          /\ pathstr' =
                                Known(pathstr, pos, Seen(tok, toks, err.popped))
                          /\ command' = r.command
                          /\ current_pt' = r.current_pt
                          /\ start_pt' = r.start_pt
                          /\ items' = r.items
    /\ UNCHANGED <<bboxVars, precision, ret, ncalls>>

\* line 142: the loop ends when no token is left
ParseReturn ==
    /\ pc = "parse"
    /\ pathlst = <<>>
    /\ pc' = "done"
    /\ UNCHANGED <<items, bboxVars, pathstr, parseVars, precision, ret, ncalls>>

\* lines 122-127, 136-140: a new Path about to parse the token list lst
ParseInit(lst) ==
    /\ items = <<>>
    /\ xmin = Unset /\ xmax = Unset /\ ymin = Unset /\ ymax = Unset
    /\ pathstr = lst
    /\ pathlst = lst
    /\ command = None
    /\ last_command = "unbound"
    /\ absolute = "unbound"
    /\ current_pt = Point(0, 0)
    /\ start_pt = None
    /\ pc = "parse"
    /\ precision = None
    /\ ret = None
    /\ ncalls = 0

\* Path.parse on every token list of at most MaxTokens tokens
InitParse == \E n \in 0..MaxTokens : ParseInit([i \in 1..n |-> Unknown])

NextParse == ParseStep \/ ParseReturn

SpecParse == InitParse /\ [][NextParse]_vars

(***************************************************************************)
(* Flattening.  A precision is a rational <<num, den>> with den > 0.  A    *)
(* Line yields its two end points as they are.  A point of a flattened     *)
(* Bezier is held exactly, as <<xnum, ynum, den>> for (xnum/den, ynum/den):*)
(* the model's control polygons have sides of whole length and its         *)
(* precisions are dyadic, for which the float quotient rlength/precision   *)
(* of the code is exact.                                                   *)
(***************************************************************************)
\* math.sqrt, on the perfect squares
Sqrt(n) == CHOOSE r \in 0..n : r * r = n

\* Line.length, lines 411-414
LineLength(l) ==
    LET s == PointSub(l.end, l.start)
    IN Sqrt(s[1] * s[1] + s[2] * s[2])

RECURSIVE RLengthFrom(_, _, _)
\* lines 465-469: pts still holds its first k points, p1 was popped last
RLengthFrom(pts, k, l) ==
    IF k = 0 THEN l
    ELSE RLengthFrom(pts, k - 1, l + LineLength(Line(pts[k + 1], pts[k])))

\* Bezier.rlength, lines 461-470
rlength(b) == RLengthFrom(b.pts, Len(b.pts) - 1, 0)

\* lines 499-504: the number of points to draw
StepCount(rl, prec) ==
    LET n0 == IF prec[1] # 0 THEN ((rl * prec[2]) \div prec[1]) + 1 ELSE 1000
        n1 == IF n0 < 10 THEN 10 ELSE n0
    IN IF n1 > 1000 THEN 1000 ELSE n1

\* Bezier._bezier1 at t = i/n, lines 510-515: p0 + t * (p1 - p0)
bezier1(p0, p1, i, n) ==
    <<n * p0[1] + i * (p1[1] - p0[1]), n * p0[2] + i * (p1[2] - p0[2]), n * p0[3]>>

RECURSIVE Casteljau(_, _, _, _)
\* lines 525-529: the passes m = dimension .. 2 over res
Casteljau(res, m, i, n) ==
    IF m <= 1 THEN res
    ELSE Casteljau([k \in 1..Len(res) |->
                       IF k <= m - 1 THEN bezier1(res[k], res[k + 1], i, n)
                       ELSE res[k]],
                   m - 1, i, n)

\* Bezier._bezierN at t = i/n, lines 517-530
bezierN(b, i, n) ==
    Casteljau([k \in 1..b.dimension |-> <<b.pts[k][1], b.pts[k][2], 1>>],
              b.dimension, i, n)[1]

\* range(0, n + 1): the end of the curve sampled too
SampleRangeClosed(n) == 0..n

\* the values of t in range(0, n), as numerators over n: line 506
SampleRange(n) == 0..(n - 1)

\* Bezier.segments, lines 494-508
BezierSegments(b, prec) ==
    LET n == StepCount(rlength(b), prec)
    IN [k \in 1..Cardinality(SampleRange(n)) |-> bezierN(b, k - 1, n)]

\* a Line flattened to its end point alone
LineSegmentsEnd(l) == <<l.end>>

\* Line.segments, lines 407-409
LineSegments(l) == <<l.start, l.end>>

ItemSegments(x, prec) ==
    IF x.type = "Line" THEN LineSegments(x) ELSE BezierSegments(x, prec)

RECURSIVE SegmentsFrom(_, _, _, _, _)
\* lines 258-264: the loop of Path.segments, at item k
SegmentsFrom(its, prec, k, sret, seg) ==
    IF k > Len(its) THEN Append(sret, seg)
    ELSE IF its[k].type = "MoveTo"
    THEN IF seg # <<>> THEN SegmentsFrom(its, prec, k + 1, Append(sret, seg), <<>>)
         ELSE SegmentsFrom(its, prec, k + 1, sret, seg)
    ELSE SegmentsFrom(its, prec, k + 1, sret, seg \o ItemSegments(its[k], prec))

\* Path.segments, lines 253-266
PathSegments(its, prec) == SegmentsFrom(its, prec, 1, <<>>, <<>>)

\* the Path is asked for its segments
Segments(precs) ==
    /\ pc = "done"
    /\ \E prec \in precs :
        /\ precision' = prec
        /\ ret' = PathSegments(items, prec)
    /\ pc' = "segments"
    /\ ncalls' = ncalls + 1
    /\ UNCHANGED <<items, bboxVars, pathstr, parseVars>>

(***************************************************************************)
(* Parsing and flattening a polygon: the path strings "Ma,b Lc,d Le,f Z".  *)
(***************************************************************************)
ScenarioNumbers == {"0", "10"}

\* re.findall on "Ma,b Lc,d Le,f Z", lines 133-134
ScenarioTokens(a, b, c, d, e, f) == <<"M", a, b, " L", c, d, " L", e, f, " Z">>

ScenarioPrecisions == {<<0, 1>>, <<1, 1>>}

InitScenario ==
    \E a, b, c, d, e, f \in ScenarioNumbers :
        ParseInit(ScenarioTokens(a, b, c, d, e, f))

SegmentsScenario == Segments(ScenarioPrecisions)

NextScenario == ParseStep \/ ParseReturn \/ SegmentsScenario

SpecScenario == InitScenario /\ [][NextScenario]_vars


\* the values of the variables a call on a Path already built does not use
Idle ==
    /\ xmin = Unset /\ xmax = Unset /\ ymin = Unset /\ ymax = Unset
    /\ pathstr = <<>>
    /\ pathlst = <<>>
    /\ command = None
    /\ last_command = None
    /\ absolute = TRUE
    /\ current_pt = Point(0, 0)
    /\ start_pt = None

(***************************************************************************)
(* Flattening one Bezier curve: the Paths that hold one quadratic or cubic *)
(* curve whose control polygon has sides of whole length.                  *)
(***************************************************************************)
QuadraticPoints == {Point(0, 0), Point(3, 0), Point(3, 4)}

CubicPoints == {Point(0, 0), Point(2, 0), Point(2, 1), Point(0, 1)}

WholeSide(p, q) ==
    \E r \in 0..5 : r * r = (q[1] - p[1]) * (q[1] - p[1]) + (q[2] - p[2]) * (q[2] - p[2])

BezierCurves ==
    {Bezier(<<p, q, r>>) : p, q, r \in QuadraticPoints}
    \cup {b \in {Bezier(<<p, q, r, t>>) : p, q, r, t \in CubicPoints} :
             \A k \in 1..3 : WholeSide(b.pts[k], b.pts[k + 1])}

BezierPrecisions == {<<0, 1>>, <<2, 1>>, <<1, 2>>, <<1, 64>>, <<1, 256>>}

InitBezier ==
    \E b \in BezierCurves :
        /\ items = <<b>>
        /\ Idle
        /\ pc = "done"
        /\ precision = None
        /\ ret = None
        /\ ncalls = 0

SegmentsBezier == Segments(BezierPrecisions)

NextBezier == SegmentsBezier

SpecBezier == InitBezier /\ [][NextBezier]_vars

(***************************************************************************)
(* Bounding box and transformations of a composite (Drawable), here a Path *)
(* over its primitives.                                                    *)
(***************************************************************************)
MaxCalls == 3       \* calls made on one object

\* Line.bbox, lines 416-429
LineBBox(l) ==
    LET xs == IF l.start[1] < l.end[1] THEN <<l.start[1], l.end[1]>>
              ELSE <<l.end[1], l.start[1]>>
        ys == IF l.start[2] < l.end[2] THEN <<l.start[2], l.end[2]>>
              ELSE <<l.end[2], l.start[2]>>
    IN <<Point(xs[1], ys[1]), Point(xs[2], ys[2])>>

\* pt < bound and pt > bound once the None of a fresh box is ruled out
\* (lines 19-26, 484-490)
Below(v, bound) == IF bound = Unset THEN TRUE ELSE v < bound[1]

Above(v, bound) == IF bound = Unset THEN TRUE ELSE v > bound[1]

\* lines 18-26 and 483-490: a box <<xmin, ymin, xmax, ymax>> widened to
\* hold pmin and pmax
BBoxUpdate(box, pmin, pmax) ==
    <<IF Below(pmin[1], box[1]) THEN <<pmin[1]>> ELSE box[1],
      IF Below(pmin[2], box[2]) THEN <<pmin[2]>> ELSE box[2],
      IF Above(pmax[1], box[3]) THEN <<pmax[1]>> ELSE box[3],
      IF Above(pmax[2], box[4]) THEN <<pmax[2]>> ELSE box[4]>>

RECURSIVE RBBoxFrom(_, _, _)
\* lines 482-490: the loop of Bezier.rbbox at point k
RBBoxFrom(pts, k, box) ==
    IF k > Len(pts) THEN box
    ELSE RBBoxFrom(pts, k + 1, BBoxUpdate(box, pts[k], pts[k]))

\* line 28 and line 492: the two corners returned
Corners(box) == <<Point(box[1][1], box[2][1]), Point(box[3][1], box[4][1])>>

\* Bezier.bbox / Bezier.rbbox, lines 472-492
BezierBBox(b) == Corners(RBBoxFrom(b.pts, 1, <<Unset, Unset, Unset, Unset>>))

\* MoveTo.bbox, lines 543-544
MoveToBBox(m) == <<m.dest, m.dest>>

\* x.bbox() of a child
ItemBBox(x) ==
    CASE x.type = "Line" -> LineBBox(x)
      [] x.type = "Bezier" -> BezierBBox(x)
      [] OTHER -> MoveToBBox(x)

RECURSIVE BBoxFrom(_, _, _)
\* lines 17-26: the loop of Drawable.bbox at child k,
\* box = <<self.xmin, self.ymin, self.xmax, self.ymax>>
BBoxFrom(its, k, box) ==
    IF k > Len(its) THEN box
    ELSE BBoxFrom(its, k + 1,
                  BBoxUpdate(box, ItemBBox(its[k])[1], ItemBBox(its[k])[2]))

\* line 15: the box Drawable.bbox starts its loop from
BBoxStart == <<xmin, ymin, xmax, ymax>>

\* Drawable.bbox, lines 15-28
Bbox ==
    /\ pc \in {"done", "bbox"}
    /\ ncalls < MaxCalls
    /\ LET box == BBoxFrom(items, 1, BBoxStart)
       IN /\ xmin' = box[1]
          /\ ymin' = box[2]
          /\ xmax' = box[3]
          /\ ymax' = box[4]
          /\ ret' = Corners(box)
    /\ pc' = "bbox"
    /\ ncalls' = ncalls + 1
    /\ UNCHANGED <<items, pathstr, parseVars, precision>>

\* Point.rot by an Angle of cosine a[1] and sine a[2], lines 361-368
PointRot(p, a) == Point(p[1] * a[1] - p[2] * a[2], p[1] * a[2] + p[2] * a[1])

\* a point under the transformation op of argument arg: p * ratio,
\* p + offset or p.rot(angle)
MapPoint(p, op, arg) ==
    CASE op = "scale" -> PointMul(p, arg)
      [] op = "translate" -> PointAdd(p, arg)
      [] OTHER -> PointRot(p, arg)

\* a primitive transformed: the scale, translate and rotate of Line
\* (431-439), Bezier (532-537) and MoveTo (546-551)
MapItem(x, op, arg) ==
    CASE x.type = "Line" ->
             Line(MapPoint(x.start, op, arg), MapPoint(x.end, op, arg))
      [] x.type = "Bezier" ->
             Bezier([k \in 1..Len(x.pts) |-> MapPoint(x.pts[k], op, arg)])
      [] OTHER -> MoveTo(MapPoint(x.dest, op, arg))

\* lines 48-49, 53-54, 58-59: every child transformed
MapItems(its, op, arg) == [k \in 1..Len(its) |-> MapItem(its[k], op, arg)]

\* Drawable.scale, lines 47-50
Scale ==
    /\ pc \in {"done", "bbox"}
    /\ ncalls < MaxCalls
    /\ \E ratio \in {2} : items' = MapItems(items, "scale", ratio)
    /\ ret' = "self"
    /\ pc' = "done"
    /\ ncalls' = ncalls + 1
    /\ UNCHANGED <<bboxVars, pathstr, parseVars, precision>>

\* Drawable.translate, lines 52-55
Translate ==
    /\ pc \in {"done", "bbox"}
    /\ ncalls < MaxCalls
    /\ \E offset \in {Point(1, 0), Point(0, -1)} :
          items' = MapItems(items, "translate", offset)
    /\ ret' = "self"
    /\ pc' = "done"
    /\ ncalls' = ncalls + 1
    /\ UNCHANGED <<bboxVars, pathstr, parseVars, precision>>

\* Drawable.rotate, lines 57-60, by the Angle of a unit vector along an axis
Rotate ==
    /\ pc \in {"done", "bbox"}
    /\ ncalls < MaxCalls
    /\ \E angle \in {<<0, 1>>, <<-1, 0>>} :
          items' = MapItems(items, "rotate", angle)
    /\ ret' = "self"
    /\ pc' = "done"
    /\ ncalls' = ncalls + 1
    /\ UNCHANGED <<bboxVars, pathstr, parseVars, precision>>

\* the Paths whose bounding box is taken
BBoxPoints == {Point(0, 0), Point(1, 2), Point(2, 1)}

BBoxPaths ==
    {<<MoveTo(p), Line(p, q)>> : p, q \in BBoxPoints}
    \cup {<<MoveTo(p), Line(p, q), Bezier(<<q, r, p>>)>> : p, q, r \in BBoxPoints}

\* lines 7-13, 122-127: a Path that holds the primitives its
InitBBox ==
    \E its \in BBoxPaths :
        /\ items = its
        /\ Idle
        /\ pc = "done"
        /\ precision = None
        /\ ret = None
        /\ ncalls = 0

NextBBox == Bbox \/ Scale \/ Translate \/ Rotate

SpecBBox == InitBBox /\ [][NextBBox]_vars

(***************************************************************************)
(* Floating point.  The simplifier tests a point with math.sqrt, / , * and *)
(* + on floats, whose roundings decide the outcome.  A float is held as    *)
(* <<m, e>> for m * 2^e, with m = 0 and e = 0, or with                     *)
(* 2^(MantBits-1) <= |m| < 2^MantBits; each operation rounds its exact     *)
(* result to the nearest such number, ties to the even one.  A double is   *)
(* the case MantBits = 53.                                                 *)
(***************************************************************************)
MantBits == 11      \* bits of the significand

Abs(n) == IF n < 0 THEN -n ELSE n

Sign(n) == IF n < 0 THEN -1 ELSE 1

\* the value of a set of one value: in Pick({e(v) : v \in {x}}) the
\* argument x is worked out once, as a call of the code works out its own
Pick(S) == CHOOSE v \in S : TRUE

RECURSIVE BitLen(_)
\* the number of bits of n >= 0
BitLen(n) == Pick({IF v = 0 THEN 0 ELSE 1 + BitLen(v \div 2) : v \in {n}})

\* a * 2^e for a # 0 of len bits, rounded to the nearest float, ties to even
RoundBits(a, e, len) ==
    IF len <= MantBits THEN <<a * 2^(MantBits - len), e - (MantBits - len)>>
    ELSE LET k == len - MantBits
             q == Abs(a) \div 2^k
             r == Abs(a) % 2^k
             up == IF r > 2^(k - 1) \/ (r = 2^(k - 1) /\ q % 2 = 1) THEN 1 ELSE 0
         IN IF q + up = 2^MantBits
            THEN <<Sign(a) * 2^(MantBits - 1), e + k + 1>>
            ELSE <<Sign(a) * (q + up), e + k>>

\* n * 2^e rounded to the nearest float
Round(n, e) ==
    Pick({IF a = 0 THEN <<0, 0>> ELSE RoundBits(a, b, len) :
              a \in {n}, b \in {e}, len \in {BitLen(Abs(n))}})

\* float(i) of an integer i
FromInt(i) == Round(i, 0)

\* x + y on floats
FAdd(x, y) ==
    Pick({IF a[1] = 0 THEN b
          ELSE IF b[1] = 0 THEN a
          ELSE Round(a[1] * 2^(a[2] - Min(a[2], b[2]))
                         + b[1] * 2^(b[2] - Min(a[2], b[2])), Min(a[2], b[2])) :
              a \in {x}, b \in {y}})

\* -x on floats
FNeg(x) == Pick({<<-a[1], a[2]>> : a \in {x}})

\* x * y on floats
FMul(x, y) == Pick({Round(a[1] * b[1], a[2] + b[2]) : a \in {x}, b \in {y}})

\* x / y on floats, y # 0: the quotient to MantBits + 2 bits and a sticky bit
FDiv(x, y) ==
    Pick({LET n == Abs(a[1]) * 2^(MantBits + 2)
              sticky == IF n % Abs(b[1]) = 0 THEN 0 ELSE 1
          IN Round(Sign(a[1]) * Sign(b[1]) * (2 * (n \div Abs(b[1])) + sticky),
                   a[2] - b[2] - (MantBits + 2) - 1) :
              a \in {x}, b \in {y}})

RECURSIVE ISqrt(_, _, _)
\* the largest r in lo..hi with r * r <= n
ISqrt(n, lo, hi) ==
    Pick({IF l = h THEN l
          ELSE IF mid * mid <= n THEN ISqrt(n, mid, h) ELSE ISqrt(n, l, mid - 1) :
              l \in {lo}, h \in {hi}, mid \in {(lo + hi + 1) \div 2}})

\* math.sqrt(x), x >= 0: the root to MantBits + 1 bits or more and a sticky bit
FSqrt(x) ==
    Pick({IF a[1] = 0 THEN a
          ELSE LET j == IF (a[2] - (MantBits + 3)) % 2 = 0 THEN MantBits + 3
                        ELSE MantBits + 4
               IN Pick({Round(2 * r + (IF r * r = a[1] * 2^j THEN 0 ELSE 1),
                              (a[2] - j) \div 2 - 1) :
                           r \in {ISqrt(a[1] * 2^j, 0, 2^(MantBits + 2))}}) :
              a \in {x}})

\* x > y on floats
FGreater(x, y) == FAdd(x, FNeg(y))[1] > 0

\* abs(x) on floats
FAbs(x) == Pick({<<Abs(a[1]), a[2]>> : a \in {x}})

\* the float Point of a Point of integers
FPoint(p) == Pick({Point(FromInt(q[1]), FromInt(q[2])) : q \in {p}})

\* Point.length, lines 357-359
length(p) ==
    Pick({FSqrt(FAdd(FMul(q[1], q[1]), FMul(q[2], q[2]))) : q \in {p}})

\* Angle.__init__ of a Point, lines 380-387: <<cos, sin>>
Angle(pt) ==
    Pick({IF len[1] = 0 THEN <<FromInt(1), FromInt(0)>>
          ELSE <<FDiv(q[1], len), FDiv(q[2], len)>> :
              q \in {pt}, len \in {length(pt)}})

\* Angle.__neg__, lines 395-396
AngleNeg(a) == Pick({Angle(Point(t[1], FNeg(t[2]))) : t \in {a}})

\* Point.rot, lines 361-368, on floats
rot(p, a) ==
    Pick({Point(FAdd(FMul(q[1], t[1]), FNeg(FMul(q[2], t[2]))),
                FAdd(FMul(q[1], t[2]), FMul(q[2], t[1]))) :
              q \in {p}, t \in {a}})

(***************************************************************************)
(* Path.simplify.  The points of a subpath are Points of integers; the     *)
(* test of a point is made on floats.  The local p3 lives across the       *)
(* subpaths of one call: "unbound" until the first assignment.             *)
(***************************************************************************)
\* a local not yet assigned, held as <<>>
Unbound == <<>>

\* lines 295-299: abs(c.y) > precision for c = b.rot(-Angle(a))
Deviates(a, b, prec) ==
    FGreater(FAbs(rot(b, AngleNeg(Angle(a)))[2]), FromInt(prec))

\* lines 280-302: one pass of the while loop on the popped point pt, a and b
\* being the vectors of lines 282 and 289
TestPoint(st, pt, a, b, prec) ==
    IF length(a)[1] = 0
    THEN [s |-> Append(SubSeq(st.s, 1, Len(st.s) - 1), pt),
          p1 |-> st.p1, p2 |-> pt, p3 |-> pt]
    ELSE IF length(b)[1] = 0
    THEN [st EXCEPT !.p3 = pt]
    ELSE IF Deviates(a, b, prec)
    THEN [s |-> Append(st.s, pt), p1 |-> st.p2, p2 |-> pt, p3 |-> pt]
    ELSE [st EXCEPT !.p3 = pt]

RECURSIVE SimplifyLoop(_, _, _, _)
\* lines 279-302: the while loop from the k-th point of seg on
SimplifyLoop(seg, k, st, prec) ==
    IF k > Len(seg) THEN st
    ELSE SimplifyLoop(seg, k + 1,
             Pick({TestPoint(t, seg[k], a, b, prec) :
                      t \in {st},
                      a \in {FPoint(PointSub(st.p2, st.p1))},
                      b \in {FPoint(PointSub(seg[k], st.p1))}}),
             prec)

\* lines 303-310: the end of the body of the for loop, st being the locals
\* the while loop left and p3 the local as the subpaths before left it
SimplifyEnd(st, p3) ==
    IF st.p3 = Unbound
    THEN [exc |-> "UnboundLocalError", s |-> <<>>, p3 |-> p3]
    ELSE [exc |-> None, s |-> Append(st.s, st.p3), p3 |-> st.p3]

\* lines 272-310: the body of the for loop on one subpath
SimplifySeg(seg, p3, prec) ==
    IF Len(seg) < 2 THEN [exc |-> "IndexError", s |-> <<>>, p3 |-> p3]
    ELSE Pick({SimplifyEnd(st, p3) :
                  st \in {SimplifyLoop(seg, 3,
                              [s |-> <<seg[1], seg[2]>>, p1 |-> seg[1],
                               p2 |-> seg[2], p3 |-> p3], prec)}})

RECURSIVE SimplifyFrom(_, _, _, _, _)
\* lines 271-312: the for loop from the k-th subpath on
SimplifyFrom(segs, k, sret, p3, prec) ==
    IF k > Len(segs) THEN [exc |-> None, ret |-> sret]
    ELSE Pick({IF r.exc # None THEN [exc |-> r.exc, ret |-> None]
               ELSE SimplifyFrom(segs, k + 1, Append(sret, r.s), r.p3, prec) :
                  r \in {SimplifySeg(segs[k], p3, prec)}})

\* lines 270-312 on the subpaths segs that self.segments(precision) returned
SimplifySegs(segs, prec) == SimplifyFrom(segs, 1, <<>>, Unbound, prec)

\* Path.simplify, lines 268-312
PathSimplify(its, prec) ==
    Pick({SimplifySegs(segs, prec) : segs \in {PathSegments(its, <<prec, 1>>)}})

\* the points and the precisions the simplifier is run on
SimplifyPoints == {Point(0, 0), Point(5, 0), Point(10, 0), Point(8, 4)}

SimplifyPrecisions == {0, 1}

MaxPoints == 4      \* points of a subpath given to the simplifier

RECURSIVE PointSeqs(_)
\* the sequences of n points
PointSeqs(n) ==
    IF n = 0 THEN {<<>>}
    ELSE {Append(sq, pt) : sq \in PointSeqs(n - 1), pt \in SimplifyPoints}

\* the simplifier run on a subpath S, and run again on what it returned
InitLoop ==
    \E n \in 3..MaxPoints : \E S \in PointSeqs(n) : \E prec \in SimplifyPrecisions :
        /\ items = <<>>
        /\ Idle
        /\ pc = "segments"
        /\ precision = prec
        /\ ret = <<S>>
        /\ ncalls = 0

\* lines 270-312, on the subpaths held in ret
Simplifier ==
    /\ pc \in {"segments", "simplify"}
    /\ ncalls < MaxCalls
    /\ LET r == SimplifySegs(ret, precision)
       IN /\ pc' = IF r.exc = None THEN "simplify" ELSE r.exc
          /\ ret' = r.ret
    /\ ncalls' = ncalls + 1
    /\ UNCHANGED <<items, bboxVars, pathstr, parseVars, precision>>

NextLoop == Simplifier

SpecLoop == InitLoop /\ [][NextLoop]_vars

\* the items "M p L q .." of a polyline through pts
Polyline(pts) ==
    <<MoveTo(pts[1])>> \o [k \in 1..(Len(pts) - 1) |-> Line(pts[k], pts[k + 1])]

\* the Paths simplified: one or two polylines of one or two Lines
SimplifyPaths ==
    LET lines == {Polyline(pts) :
                     pts \in {sq \in PointSeqs(2) \cup PointSeqs(3) :
                                 \A k \in 1..Len(sq) : sq[k] # Point(5, 0)}}
    IN lines \cup {l1 \o l2 : l1, l2 \in lines}

InitSimplify ==
    \E its \in SimplifyPaths :
        /\ items = its
        /\ Idle
        /\ pc = "done"
        /\ precision = None
        /\ ret = None
        /\ ncalls = 0

\* Path.simplify, lines 268-312
Simplify ==
    /\ pc = "done"
    /\ \E prec \in SimplifyPrecisions :
          LET r == PathSimplify(items, prec)
          IN /\ pc' = IF r.exc = None THEN "simplify" ELSE r.exc
             /\ ret' = r.ret
             /\ precision' = prec
    /\ ncalls' = ncalls + 1
    /\ UNCHANGED <<items, bboxVars, pathstr, parseVars>>

NextSimplify == Simplify

SpecSimplify == InitSimplify /\ [][NextSimplify]_vars

(***************************************************************************)
(* Properties of Path.parse and Path.segments.                             *)
(***************************************************************************)
Exceptions == {"ValueError", "IndexError", "TypeError", "AttributeError",
               "LookupError"}

PolygonTokens == ScenarioTokens("0", "0", "10", "0", "10", "10")

PolygonItems ==
    <<MoveTo(Point(0, 0)),
      Line(Point(0, 0), Point(10, 0)),
      Line(Point(10, 0), Point(10, 10)),
      Line(Point(10, 10), Point(0, 0))>>

\* C2, as claimed: parsing "M0,0 L10,0 L10,10 Z" yields MoveTo(0,0), the two
\* Lines and the closing Line, and segments(0) returns the single subpath
\* [(0,0),(10,0),(10,10),(0,0)], every vertex once.
C2_PolygonFourPoints ==
    (pc = "segments" /\ pathstr = PolygonTokens /\ precision = <<0, 1>>)
    => /\ items = PolygonItems
       /\ ret = << <<Point(0, 0), Point(10, 0), Point(10, 10), Point(0, 0)>> >>

\* C2, amended: the same four primitives, and segments(0) returns the single
\* subpath [(0,0),(10,0),(10,0),(10,10),(10,10),(0,0)]: each Line gives both
\* its end points, so the end point two consecutive Lines share comes twice.
C2_PolygonSixPoints ==
    (pc = "segments" /\ pathstr = PolygonTokens /\ precision = <<0, 1>>)
    => /\ items = PolygonItems
       /\ ret = << <<Point(0, 0), Point(10, 0), Point(10, 0), Point(10, 10),
                     Point(10, 10), Point(0, 0)>> >>

\* C2: the polygon parsed to its end and flattened at precision 0
C2_Witness ==
    pc = "segments" /\ pathstr = PolygonTokens /\ precision = <<0, 1>>
    /\ Len(ret) = 1

\* the number of coordinate tokens each command reads
C7_Coordinates(cmd) ==
    CASE cmd \in {"M", "L", "T"} -> 2
      [] cmd \in {"H", "V"} -> 1
      [] cmd \in {"Q", "S"} -> 4
      [] cmd = "C" -> 6
      [] cmd = "A" -> 7
      [] OTHER -> 0

\* an iteration of the loop of Path.parse has just run
Iterated == pc = "parse" /\ pathlst # <<>> /\ vars' # vars

\* the token at the head of the list in the iteration just run
ReadToken == pathstr'[Len(pathstr) - Len(pathlst) + 1]

\* the command the iteration just run has executed
RunCommand == StepCommand(ReadToken)

C7_NumberFirst == command = None /\ ~IsCommand(ReadToken)

C7_Exhausted ==
    C7_Coordinates(RunCommand)
        > Len(pathlst) - (IF IsCommand(ReadToken) THEN 1 ELSE 0)

\* C7: an iteration of Path.parse that finds a number token while no command
\* letter has been seen, or whose command (explicit or repeated) needs more
\* coordinate tokens than the stream still holds, ends the parse in an error.
C7_MalformedRaises ==
    [][(Iterated /\ (C7_NumberFirst \/ C7_Exhausted)) => pc' \in Exceptions]_vars

\* C7: a curveto after other primitives ran out of coordinates and raised
C7_Witness ==
    pc = "IndexError" /\ command = "C" /\ pathlst = <<>> /\ items # <<>>

C8_Family(cmd) == IF cmd = "S" THEN {"C", "S"} ELSE {"Q", "T"}

\* C8, as claimed: every S or T that parse runs, repeated ones included, emits
\* a Bezier whose second point is 2*current_pt - control_point(k) of the
\* previous curve (k = 2 for S, 1 for T) exactly when the command run just
\* before it is of the same family, and current_pt otherwise.
C8_SmoothMirrorsPrevious ==
    [][(Iterated /\ pc' = "parse" /\ RunCommand \in {"S", "T"})
       => control_point(Last(items'), 1) =
            IF command \in C8_Family(RunCommand)
            THEN PointSub(PointMul(current_pt, 2),
                          control_point(Last(items),
                              IF RunCommand = "S" THEN 2 ELSE 1))
            ELSE current_pt]_vars

\* C9, as claimed: every iteration of the parse loop that does not raise
\* removes at least one token from the stream.
C9_IterationPops ==
    [][(Iterated /\ pc' = "parse") => Len(pathlst') < Len(pathlst)]_vars

C10_Offsets == {Point(Float(a), Float(b)) : a, b \in NumberTokens}

\* C10: a Z after a MoveTo emits exactly one Line from current_pt to start_pt
\* and leaves current_pt and start_pt as they are; every Line or Bezier parse
\* emits starts at the current_pt held before its iteration, and a relative
\* LineTo ends at that current_pt plus the offset read.
C10_ClosePathKeepsPen ==
    [][(Iterated /\ pc' = "parse")
       => /\ (RunCommand = "Z" /\ start_pt # None)
             => /\ items' = Append(items, Line(current_pt, start_pt))
                /\ current_pt' = current_pt
                /\ start_pt' = start_pt
          /\ (Len(items') > Len(items) /\ Last(items').type = "Line")
             => Last(items').start = current_pt
          /\ (Len(items') > Len(items) /\ Last(items').type = "Bezier")
             => control_point(Last(items'), 0) = current_pt
          /\ (RunCommand = "L" /\ absolute' = FALSE)
             => PointSub(Last(items').end, current_pt) \in C10_Offsets]_vars

\* C10: a relative line drawn right after a closing Line, from the point the
\* pen held before the Z
C10_Witness ==
    /\ pc = "parse"
    /\ items # <<>>
    /\ items[1].type = "MoveTo"
    /\ absolute = FALSE
    /\ \E i \in 1..(Len(items) - 1) :
        /\ items[i].type = "Line"
        /\ items[i + 1].type = "Line"
        /\ items[i].start # items[i].end
        /\ items[i + 1].start = items[i].start

(***************************************************************************)
(* Properties of Drawable.bbox.                                            *)
(***************************************************************************)
C1_Boxes == {ItemBBox(items[k]) : k \in 1..Len(items)}

C1_Min(S) == CHOOSE v \in S : \A w \in S : v <= w

C1_Max(S) == CHOOSE v \in S : \A w \in S : v >= w

\* C1, as claimed: whatever bbox(), scale(), translate() and rotate() calls
\* came before, bbox() returns the component-wise minimum and maximum of the
\* bounding boxes its children have at the moment of the call.
C1_BBoxIsFresh ==
    pc = "bbox"
    => ret = <<Point(C1_Min({b[1][1] : b \in C1_Boxes}),
                     C1_Min({b[1][2] : b \in C1_Boxes})),
               Point(C1_Max({b[2][1] : b \in C1_Boxes}),
                     C1_Max({b[2][2] : b \in C1_Boxes}))>>

(***************************************************************************)
(* Properties of Path.simplify.                                            *)
(***************************************************************************)
C3_Collinear(S) ==
    (S[2][1] - S[1][1]) * (S[3][2] - S[1][2])
        = (S[2][2] - S[1][2]) * (S[3][1] - S[1][1])

\* C3, as claimed: the simplifier run on a subpath of three exactly collinear
\* points p1, p2, p3 (here distinct ones, as (0,0), (5,0), (10,0)), at any
\* precision >= 0, returns exactly [p1, p3].
C3_MiddleRemoved ==
    [][(pc = "segments" /\ ncalls' = ncalls + 1
            /\ Len(ret[1]) = 3 /\ C3_Collinear(ret[1])
            /\ ret[1][1] # ret[1][2] /\ ret[1][2] # ret[1][3])
        => (pc' = "simplify" /\ ret' = <<<<ret[1][1], ret[1][3]>>>>)]_vars

\* C4, as claimed: for every Path and precision, simplify returns one list
\* per subpath of segments(precision), the list starting with that subpath's
\* first point and ending with that subpath's last point; so for a subpath
\* of one Line and for a Path of several subpaths.
C4_EndpointsKept ==
    pc # "done"
    => /\ pc = "simplify"
       /\ LET segs == PathSegments(items, <<precision, 1>>)
          IN /\ Len(ret) = Len(segs)
             /\ \A k \in 1..Len(segs) :
                   /\ ret[k][1] = segs[k][1]
                   /\ Last(ret[k]) = Last(segs[k])

\* C5, as claimed: the simplifier run on a sequence S of three points or
\* more gives S'; run again on S' at the same precision it gives S' again.
C5_Idempotent ==
    [][(pc = "simplify" /\ ncalls = 1 /\ ncalls' = 2)
        => (pc' = "simplify" /\ ret' = ret)]_vars

(***************************************************************************)
(* Properties of Bezier.segments.                                          *)
(***************************************************************************)
\* the distance between two control points a whole number apart
C6_Distance(p, q) ==
    CHOOSE r \in 0..5 :
        r * r = (q[1] - p[1]) * (q[1] - p[1]) + (q[2] - p[2]) * (q[2] - p[2])

RECURSIVE C6_RoughLength(_, _)
\* the sum of the distances between consecutive control points, from the
\* k-th on
C6_RoughLength(pts, k) ==
    IF k >= Len(pts) THEN 0
    ELSE C6_Distance(pts[k], pts[k + 1]) + C6_RoughLength(pts, k + 1)

\* floor(a / (num/den))
C6_Floor(a, prec) ==
    CHOOSE q \in 0..(a * prec[2]) :
        q * prec[1] <= a * prec[2] /\ a * prec[2] < (q + 1) * prec[1]

\* clamp(floor(rough_length / precision) + 1, 10, 1000), and 1000 at precision 0
C6_Count(b, prec) ==
    IF prec[1] = 0 THEN 1000
    ELSE LET n == C6_Floor(C6_RoughLength(b.pts, 1), prec) + 1
         IN IF n < 10 THEN 10 ELSE IF n > 1000 THEN 1000 ELSE n

C6_Binomial(m, k) ==
    CASE k = 0 \/ k = m -> 1
      [] m = 2 -> 2
      [] OTHER -> 3

RECURSIVE C6_Power(_, _)
C6_Power(a, k) == IF k = 0 THEN 1 ELSE a * C6_Power(a, k - 1)

RECURSIVE C6_Bernstein(_, _, _, _, _)
\* the sum from the k-th control point on of
\* binomial(m, k) * (n - i)^(m - k) * i^k * the c-th coordinate, m the degree
C6_Bernstein(b, i, n, k, c) ==
    IF k > b.dimension - 1 THEN 0
    ELSE C6_Binomial(b.dimension - 1, k) * C6_Power(n - i, b.dimension - 1 - k)
             * C6_Power(i, k) * b.pts[k + 1][c]
         + C6_Bernstein(b, i, n, k + 1, c)

\* the curve at t = i/n, as <<xnum, ynum, den>>
C6_Curve(b, i, n) ==
    <<C6_Bernstein(b, i, n, 0, 1), C6_Bernstein(b, i, n, 0, 2),
      C6_Power(n, b.dimension - 1)>>

\* C6: Bezier.segments(precision) returns n points, n being
\* clamp(floor(rough_length / precision) + 1, 10, 1000) at a precision > 0
\* and 1000 at precision 0, so 10 <= n <= 1000; the i-th point, i in 0..n-1,
\* is the curve at t = i/n, so that the first is the first control point
\* and the last is at t = (n-1)/n: t = 1 is not sampled.
C6_BezierSamples ==
    (pc = "segments" /\ Len(items) = 1 /\ items[1].type = "Bezier")
    => LET b == items[1]
           n == C6_Count(b, precision)
       IN /\ Len(ret) = 1
          /\ Len(ret[1]) = n
          /\ n >= 10 /\ n <= 1000
          /\ precision[1] = 0 => n = 1000
          /\ \A i \in 0..(n - 1) : ret[1][i + 1] = C6_Curve(b, i, n)
          /\ ret[1][1][1] = b.pts[1][1] * ret[1][1][3]
          /\ ret[1][1][2] = b.pts[1][2] * ret[1][1][3]

\* C6: a curve flattened in a number of points the clamp did not set, its
\* end away from its start
C6_Witness ==
    /\ pc = "segments"
    /\ Len(items) = 1
    /\ items[1].type = "Bezier"
    /\ precision[1] # 0
    /\ Len(ret[1]) > 10
    /\ Len(ret[1]) < 1000
    /\ items[1].pts[1] # Last(items[1].pts)

====
